---- MODULE Spec2Model ----
(***************************************************************************)
(* Domain-decomposition coordination core of Parallel_Compute.             *)
(*                                                                         *)
(* One coordinator (class Domain) drives NumParts worker processes         *)
(* (Domain._worker / Domain._subdomain_worker) over two FIFO queues per    *)
(* worker.  Two variants of Domain exist in the repository:                *)
(*   "schur"   : src/Schur Method/ddm.py (and its copy src/ddm.py)         *)
(*   "schwarz" : src/Schwarz Method/ddm.py                                 *)
(* The local solver (openseespy) is an external collaborator: the values   *)
(* it returns are inputs, drawn from small sets.                           *)
(***************************************************************************)
EXTENDS Integers, Sequences, FiniteSets, TLC

(***************************************************************************)
(* Bounds of the model and constants of the program.                       *)
(***************************************************************************)
\* largest max_iter a Schwarz Domain is constructed with
MaxIter == 2
\* number of step / schur_update calls a caller makes before shutdown
MaxOps == 2
\* largest max_iter of the Schwarz Domain whose sweeps are followed one by one
MaxSweeps == 3
\* longest interface order that is packed and unpacked
MaxPackLen == 3
\* meshes GlobalQuadMesh(nx, ny) with nx, ny up to this are partitioned
MaxMeshN == 4
\* the longest partition list given to a Schwarz Domain in the exchange specification
MaxParts == 4
\* the partition list given to Domain is [left, right]
NumParts == 2
\* GlobalQuadMesh(6, 2) of the Schwarz driver
SchwarzNx == 6
SchwarzNy == 2
\* GlobalQuadMesh(nx=6, ny=3) of the Schur driver
SchurNx == 6
SchurNy == 3

Parts == 0 .. (NumParts - 1)
\* displacement / load values the local solver may report
Vals == {0, 1}
\* tolerances a Schwarz Domain is constructed with (spread < tol converges)
Tols == {0, 1, 2}
\* the two in-plane DOFs the Schwarz code uses, and the 1-based ones of Schur
Dofs01 == {0, 1}
EmptyMap == [k \in {} |-> 0]

Min2(a, b) == IF a <= b THEN a ELSE b

(***************************************************************************)
(* GlobalQuadMesh: node tags 1..(nx+1)*(ny+1), row by row.  A node's x is  *)
(* ix/nx; comparisons against 0.5 +- dx +- 0.01*dx are done on x*200*nx.   *)
(***************************************************************************)
NodeIx(nx, t) == (t - 1) % (nx + 1)
NodeTag(nx, i, j) == 1 + j * (nx + 1) + i
ScaledX(nx, t) == 200 * NodeIx(nx, t)
ScaledHalf(nx) == 100 * nx
ScaledDx == 200
ScaledTol == 2

SeqToSet(s) == {s[k] : k \in 1 .. Len(s)}
TagSeq(nx, ny) == [k \in 1 .. ((nx + 1) * (ny + 1)) |-> k]

(***************************************************************************)
(* Schwarz Method/partitions.py: the overlap band and the two overlapping  *)
(* partitions.                                                             *)
(***************************************************************************)
\* x-indices of the overlap band, ascending: low < x < high
OverlapIxs(nx) ==
    SelectSeq([k \in 1 .. (nx + 1) |-> k - 1],
              LAMBDA i : /\ ScaledHalf(nx) - ScaledDx - ScaledTol < 200 * i
                         /\ 200 * i < ScaledHalf(nx) + ScaledDx + ScaledTol)

\* one y-group of the overlap nodes, sorted by x
OverlapRow(nx, j) ==
    [k \in 1 .. Len(OverlapIxs(nx)) |-> NodeTag(nx, OverlapIxs(nx)[k], j)]

\* variant: right_send takes one node more of each row
RowSliceWide(row, which) ==
    LET m == Len(row) \div 2
    IN  CASE which = "left_send"  -> SubSeq(row, m + 1, Len(row))
          [] which = "right_send" -> SubSeq(row, 1, Min2(m + 1, Len(row)))
          [] OTHER                -> SubSeq(row, m + 1, Min2(m + 1, Len(row)))
\* the slice of a row that goes to left_send / right_send / central_nodes
RowSlice(row, which) ==
    LET m == Len(row) \div 2
    IN  CASE which = "left_send"  -> SubSeq(row, m + 1, Len(row))
          [] which = "right_send" -> SubSeq(row, 1, m)
          [] OTHER                -> SubSeq(row, m + 1, Min2(m + 1, Len(row)))

RECURSIVE OverlapUpTo(_, _, _)
OverlapUpTo(nx, j, which) ==
    IF j < 0 THEN << >>
    ELSE OverlapUpTo(nx, j - 1, which) \o RowSlice(OverlapRow(nx, j), which)

\* GlobalQuadMesh.get_overlap_nodes()[which]
get_overlap_nodes(nx, ny, which) == OverlapUpTo(nx, ny, which)

\* node_tags of LeftQuadPartition (i = 0) and RightQuadPartition (i = 1)
SchwarzNodeTags(i) ==
    SelectSeq(TagSeq(SchwarzNx, SchwarzNy),
              LAMBDA t : IF i = 0
                         THEN ScaledX(SchwarzNx, t)
                                <= ScaledHalf(SchwarzNx) + ScaledDx + ScaledTol
                         ELSE ScaledX(SchwarzNx, t)
                                >= ScaledHalf(SchwarzNx) - ScaledDx - ScaledTol)
\* (send_overlap, recv_overlap, central_overlap) of the two partitions, computed once
get_overlap_nodes_of ==
    [i \in Parts |->
       [send    |-> get_overlap_nodes(SchwarzNx, SchwarzNy,
                                      IF i = 0 THEN "right_send" ELSE "left_send"),
        recv    |-> get_overlap_nodes(SchwarzNx, SchwarzNy,
                                      IF i = 0 THEN "left_send" ELSE "right_send"),
        central |-> get_overlap_nodes(SchwarzNx, SchwarzNy, "central_nodes")]]
\* the same for the partitions built from GlobalQuadMesh(nx, ny)
PartitionOverlap(nx, ny, i) ==
    [send    |-> get_overlap_nodes(nx, ny, IF i = 0 THEN "right_send" ELSE "left_send"),
     recv    |-> get_overlap_nodes(nx, ny, IF i = 0 THEN "left_send" ELSE "right_send"),
     central |-> get_overlap_nodes(nx, ny, "central_nodes")]
send_overlap(i) == get_overlap_nodes_of[i].send
recv_overlap(i) == get_overlap_nodes_of[i].recv
central_overlap(i) == get_overlap_nodes_of[i].central

(***************************************************************************)
(* Schur Method/partitions.py: the two abutting partitions and the         *)
(* interface nodes x = 0.5.                                                *)
(***************************************************************************)
get_interface_nodes(nx, ny) ==
    SelectSeq(TagSeq(nx, ny), LAMBDA t : 2 * NodeIx(nx, t) = nx)
SchurNodeTags(i) ==
    SelectSeq(TagSeq(SchurNx, SchurNy),
              LAMBDA t : IF i = 0 THEN 2 * NodeIx(SchurNx, t) <= SchurNx
                                  ELSE 2 * NodeIx(SchurNx, t) >= SchurNx)
\* the driver's interface_order: [(n, d) for n in interface_nodes for d in (1, 2)]
DriverInterfaceOrder ==
    LET nodes == get_interface_nodes(SchurNx, SchurNy)
    IN  [k \in 1 .. (2 * Len(nodes)) |-> << nodes[(k + 1) \div 2], 2 - (k % 2) >>]

(***************************************************************************)
(* State.                                                                  *)
(***************************************************************************)
VARIABLES
    variant,          \* which Domain class runs: "schur" or "schwarz"
    partitions,       \* Domain.partitions: the class of each partition, 0 for the left
                      \* and 1 for the right one
    has_node_tags,    \* has_node_tags[i]: hasattr(partition i, 'node_tags')
    diffs,            \* max_diff of every sweep the current Schwarz step() has measured
    fixed_nodes,      \* fixed_nodes[i]: the fixed-node set of partition i
    tol,              \* Domain.tol       (Schwarz)
    max_iter,         \* Domain.max_iter  (Schwarz)
    interface_data,   \* Domain.interface_data[i]: receive buffer of partition i (Schwarz)
    interface_order,  \* Domain.interface_order (Schur)
    interface_guess,  \* Domain.interface_guess (Schur)
    to_q,             \* to_q[i]: request queue of worker i (to_sub / to_subdomain)
    from_q,           \* from_q[i]: reply queue of worker i (from_sub / from_subdomain)
    wstate,           \* worker i: "starting", "waiting" in to_q.get(), "busy" with a message,
                      \* "looping" back to to_q.get(), "exited", "crashed"
    wmsg,             \* the message worker i is handling
    op,               \* the coordinator operation in progress, "none" between calls
    pc,               \* where the coordinator is inside the operation
    idx,              \* index of the queue / process the current loop is at
    itr,              \* loop variable of the Schwarz sweep loop
    collected,        \* the replies taken so far in this round
    reactions,        \* local variable reactions of Schwarz step: << >> is None
    total,            \* (S_total, g_total) of schur_update: << >> is None
    outcome,          \* how the last operation ended: "none", "returned", "raised"
    retval,           \* what the last operation returned
    round,            \* number of rounds started so far (the id requests carry)
    sentRound,        \* sentRound[i]: id of the last request put on to_q[i]
    recvRound,        \* recvRound[i]: id carried by the last reply taken from from_q[i]
    takenRound,       \* takenRound[i]: sentRound[i] when that reply was taken
    termSent,         \* termSent[i]: shutdown() has put its message on to_q[i]
    nops              \* number of step / schur_update calls made

vars == << variant, partitions, has_node_tags, diffs, fixed_nodes, tol, max_iter, interface_data, interface_order,
           interface_guess, to_q, from_q, wstate, wmsg, op, pc, idx, itr,
           collected, reactions, total, outcome, retval, round, sentRound,
           recvRound, takenRound, termSent, nops >>

\* the driver's fixed-node lists, and others a caller may pass
SchwarzFixedChoices ==
    { (0 :> {1} @@ 1 :> {6}), (0 :> {1, 3} @@ 1 :> {6}), (0 :> {1} @@ 1 :> {4, 6}),
      (0 :> {1, 4} @@ 1 :> {6}) }
SchurFixedChoices ==
    { (0 :> {1} @@ 1 :> {7}), (0 :> {1, 4} @@ 1 :> {7}), (0 :> {1, 4} @@ 1 :> {4, 7}) }

\* node_tags of the partitions of each variant, computed once
NodeTagsOf ==
    [v \in {"schur", "schwarz"} |->
       [i \in Parts |-> IF v = "schwarz" THEN SchwarzNodeTags(i) ELSE SchurNodeTags(i)]]
node_tags(i) == NodeTagsOf[variant][i]
\* variant: the fixed nodes are kept
AllNodes(i) == node_tags(i)
\* free = [n for n in node_tags if n not in fixed_nodes]
FreeNodes(i) == SelectSeq(node_tags(i), LAMBDA n : n \notin fixed_nodes[i])
\* keys of the displacement map Subdomain.solve returns
FreeKeys(i) == SeqToSet(FreeNodes(i)) \X Dofs01
RecvKeys(i) == SeqToSet(recv_overlap(i)) \X Dofs01
\* len(get_dof_partition()["interface"]) of a Schur partition
InterfaceSize(i) ==
    2 * Len(SelectSeq(FreeNodes(i), LAMBDA n : 2 * NodeIx(SchurNx, n) = SchurNx))

(***************************************************************************)
(* get_dof_partition() of the partition descriptors.                       *)
(***************************************************************************)
\* node_to_dof[n]: i * 2 for the i-th (from 0) free node
NodeToDof(free, n) == 2 * (CHOOSE k \in 1 .. Len(free) : free[k] = n) - 2
\* [node_to_dof[n] + d for n in tags for d in (0, 1)]
DofList(free, tags) ==
    [k \in 1 .. (2 * Len(tags)) |-> NodeToDof(free, tags[(k + 1) \div 2]) + ((k - 1) % 2)]
\* interface_tags of a Schur partition: the free nodes with x = 0.5
InterfaceTags(i) == SelectSeq(FreeNodes(i), LAMBDA n : 2 * NodeIx(SchurNx, n) = SchurNx)
\* get_dof_partition() of Schur partition i
SchurDofPartition(i) ==
    LET free     == FreeNodes(i)
        interior == SelectSeq(free, LAMBDA n : n \notin SeqToSet(InterfaceTags(i)))
    IN  [ok |-> TRUE,
         interior  |-> DofList(free, interior),
         interface |-> DofList(free, InterfaceTags(i))]
\* get_dof_partition() of Schwarz partition i: ntod[n] raises KeyError for an
\* overlap node that is not free
SchwarzDofPartition(i) ==
    LET free     == FreeNodes(i)
        iface    == send_overlap(i) \o recv_overlap(i)
        interior == SelectSeq(free, LAMBDA n : n \notin SeqToSet(iface))
    IN  IF \E n \in SeqToSet(iface) : n \notin SeqToSet(free)
        THEN [ok |-> FALSE, interior |-> << >>, interface |-> << >>]
        ELSE [ok |-> TRUE,
              interior  |-> DofList(free, interior),
              interface |-> DofList(free, iface)]
get_dof_partition(i) ==
    IF variant = "schur" THEN SchurDofPartition(i) ELSE SchwarzDofPartition(i)
\* the (node, dof) key that row and column j of worker i's (S_local, g_local)
\* belong to: K is indexed by the interface DOF list, DOFs 1 and 2 of each tag
LocalInterfaceKeys(i) ==
    [k \in 1 .. (2 * Len(InterfaceTags(i))) |->
        << InterfaceTags(i)[(k + 1) \div 2], 2 - (k % 2) >>]

NoMsg == [cmd |-> "none", id |-> 0, data |-> EmptyMap]
Request(cmd, id, data) == [cmd |-> cmd, id |-> id, data |-> data]

\* Domain.__init__ apart from the state of the spawned processes, for max_iter up to m
ConstructedWith(m) ==
    /\ variant \in {"schur", "schwarz"}
    /\ partitions = [i \in Parts |-> i]
    /\ diffs = << >>
    /\ fixed_nodes \in (IF variant = "schwarz" THEN SchwarzFixedChoices
                                               ELSE SchurFixedChoices)
    /\ tol \in (IF variant = "schwarz" THEN Tols ELSE {0})
    /\ max_iter \in (IF variant = "schwarz" THEN 0 .. m ELSE {0})
    /\ interface_data =
         [i \in Parts |-> IF variant = "schwarz" THEN [k \in RecvKeys(i) |-> 0]
                                                 ELSE EmptyMap]
    /\ to_q = [i \in Parts |-> << >>]
    /\ from_q = [i \in Parts |-> << >>]
    /\ wmsg = [i \in Parts |-> NoMsg]
    /\ op = "none"
    /\ pc = "idle"
    /\ idx = 0
    /\ itr = 0
    /\ collected = << >>
    /\ reactions = << >>
    /\ total = << >>
    /\ outcome = "none"
    /\ retval = [converged |-> FALSE, reactions |-> << >>, u |-> << >>]
    /\ round = 0
    /\ sentRound = [i \in Parts |-> 0]
    /\ recvRound = [i \in Parts |-> 0]
    /\ takenRound = [i \in Parts |-> 0]
    /\ termSent = [i \in Parts |-> FALSE]
    /\ nops = 0

Constructed == ConstructedWith(MaxIter)

\* the Schur driver sets interface_order and a zero interface_guess after the
\* construction; a Schwarz Domain has neither
DriverConfigured ==
    /\ interface_order = (IF variant = "schur" THEN DriverInterfaceOrder ELSE << >>)
    /\ interface_guess = (IF variant = "schur"
                          THEN [k \in SeqToSet(DriverInterfaceOrder) |-> 0]
                          ELSE EmptyMap)

\* the state at the return of Domain.__init__: the partitions are the drivers'
\* descriptors and every worker process has been started and is still starting up
Init ==
    /\ Constructed
    /\ DriverConfigured
    /\ has_node_tags = [i \in Parts |-> TRUE]
    /\ wstate = [i \in Parts |-> "starting"]

(***************************************************************************)
(* Coordinator: the loops over the queue and process lists.                *)
(***************************************************************************)
\* "for q in self.to_sub: q.put(...)" has put to queue i and is over
BroadcastDone(i) == i + 1 = NumParts
\* variant: the collect loop stops after its first get
CollectDoneEarly(i) == TRUE
\* "[q.get() for q in self.from_sub]" has taken from queue i and is over
CollectDone(i) == i + 1 = NumParts
\* variant: the replies are taken last worker first
CollectFromReversed(k) == NumParts - 1 - k
\* the k-th get of a round is on the reply queue of worker k
CollectFrom(k) == k
\* variant: shutdown() starts joining after its first put
TerminateDoneEarly(i) == TRUE
\* "for q in self.to_sub: q.put('TERMINATE')" has put to queue i and is over
TerminateDone(i) == i + 1 = NumParts
\* "for p in self.workers: p.join()" has joined process i and is over
JoinDone(i) == i + 1 = NumParts
\* variant: join() does not wait for the process
JoinReturnsAtOnce(i) == TRUE
\* p.join() returns once process i is no longer alive
JoinReturns(i) == wstate[i] \in {"exited", "crashed"}
\* variant: shutdown() puts a word the workers do not know
TerminateCmdUnknown == "STOP"
\* the message shutdown() puts
TerminateCmd == "TERMINATE"
\* variant: the first sweep may be accepted too
SweepFloorNone(it) == it >= 0
\* "itr >= 1": the sweep may be accepted as converged
SweepFloor(it) == it >= 1

\* what each operation puts on to_q[i] in a round
RequestOf(i) ==
    CASE variant = "schwarz"  -> Request("solve", round, interface_data[i])
      [] op = "step"          -> Request("solve", round, interface_guess)
      [] OTHER                -> Request("schur", round, EmptyMap)

Return(val) ==
    /\ pc' = "idle"
    /\ op' = "none"
    /\ outcome' = "returned"
    /\ retval' = val

Raise ==
    /\ pc' = "idle"
    /\ op' = "none"
    /\ outcome' = "raised"
    /\ UNCHANGED retval

StartRound ==
    /\ pc' = "send"
    /\ idx' = 0
    /\ round' = round + 1

\* Schwarz: Domain.step(time, load_factor) is called
CallSchwarzStep ==
    /\ variant = "schwarz"
    /\ pc = "idle"
    /\ nops < MaxOps
    /\ nops' = nops + 1
    /\ itr' = 0
    /\ reactions' = << >>
    /\ collected' = << >>
    /\ diffs' = << >>
    /\ IF 0 < max_iter
       THEN /\ StartRound
            /\ op' = "step"
            /\ outcome' = "none"
            /\ UNCHANGED retval
       ELSE /\ Return([converged |-> FALSE, reactions |-> << >>, u |-> << >>])
            /\ UNCHANGED << idx, round >>
    /\ UNCHANGED << takenRound, termSent, variant, partitions, has_node_tags, fixed_nodes, tol,
                    max_iter, interface_data, interface_order, interface_guess,
                    to_q, from_q, wstate, wmsg, total, sentRound, recvRound >>

\* Schur: Domain.step() or Domain.schur_update() is called
CallSchur(which) ==
    /\ variant = "schur"
    /\ pc = "idle"
    /\ nops < MaxOps
    /\ nops' = nops + 1
    /\ op' = which
    /\ outcome' = "none"
    /\ collected' = << >>
    /\ total' = << >>
    /\ StartRound
    /\ UNCHANGED << takenRound, termSent, variant, partitions, has_node_tags, diffs, fixed_nodes, tol, max_iter, interface_data,
                    interface_order, interface_guess, to_q, from_q, wstate, wmsg,
                    itr, reactions, retval, sentRound, recvRound >>

\* one q.put(request) of the broadcast loop
Put(i) ==
    /\ pc = "send"
    /\ idx = i
    /\ to_q' = [to_q EXCEPT ![i] = Append(@, RequestOf(i))]
    /\ sentRound' = [sentRound EXCEPT ![i] = round]
    /\ IF BroadcastDone(i)
       THEN /\ pc' = "recv"
            /\ idx' = 0
       ELSE /\ idx' = i + 1
            /\ UNCHANGED pc
    /\ collected' = << >>
    /\ UNCHANGED << takenRound, termSent, variant, partitions, has_node_tags, diffs, fixed_nodes, tol, max_iter, interface_data,
                    interface_order, interface_guess, from_q, wstate, wmsg, op, itr,
                    reactions, total, outcome, retval, round, recvRound, nops >>

\* S_total += S_i, g_total += g_i: None, or the running sum, or a shape mismatch
Accumulate(tot, r) ==
    IF tot = << >> THEN [ok |-> TRUE, tot |-> << [n |-> r.n, s |-> r.s, g |-> r.g] >>]
    ELSE IF tot[1].n # r.n THEN [ok |-> FALSE, tot |-> tot]
    ELSE [ok |-> TRUE,
          tot |-> << [n |-> r.n, s |-> tot[1].s + r.s, g |-> tot[1].g + r.g] >>]

\* one q.get() of the collect loop; it blocks while the reply queue is empty
Get(k) ==
    LET i == CollectFrom(k)
        r == Head(from_q[i])
    IN
    /\ pc = "recv"
    /\ idx = k
    /\ from_q[i] # << >>
    /\ from_q' = [from_q EXCEPT ![i] = Tail(@)]
    /\ recvRound' = [recvRound EXCEPT ![i] = r.id]
    /\ takenRound' = [takenRound EXCEPT ![i] = sentRound[i]]
    /\ collected' = Append(collected, r)
    /\ IF op = "schur_update"
       THEN LET acc == Accumulate(total, r)
            IN  /\ total' = acc.tot
                /\ IF ~acc.ok
                   THEN /\ Raise
                        /\ UNCHANGED idx
                   ELSE /\ idx' = k + 1
                        /\ pc' = (IF CollectDone(k) THEN "compute" ELSE "recv")
                        /\ UNCHANGED << op, outcome, retval >>
       ELSE /\ idx' = k + 1
            /\ pc' = (IF CollectDone(k) THEN "compute" ELSE "recv")
            /\ UNCHANGED << total, op, outcome, retval >>
    /\ UNCHANGED << termSent, variant, partitions, has_node_tags, diffs, fixed_nodes, tol, max_iter, interface_data,
                    interface_order, interface_guess, to_q, wstate, wmsg, itr,
                    reactions, round, sentRound, nops >>

(***************************************************************************)
(* Schwarz sweep: exchange of the send-overlap values and the convergence  *)
(* measure on the central nodes.                                           *)
(***************************************************************************)
\* Python list index: a negative index counts from the end
PyIndex(j) == IF j < 0 THEN j + NumParts ELSE j
\* variant: a partition's values are written into its own buffer
OtherIsSelf(i) == i
\* other = 1 - i
OtherOf(i) == PyIndex(1 - i)
SendKeysOf == [i \in Parts |-> SeqToSet(send_overlap(i)) \X Dofs01]
SendKeys(i) == SendKeysOf[i]

\* interface_data[other].update({(n, dof): reactions[i]['displacements'][(n, dof)] ...})
ExchangeOne(data, reacts, i) ==
    LET other == OtherOf(i)
    IN  IF \/ other \notin Parts
           \/ i + 1 > Len(reacts)
           \/ \E k \in SendKeys(i) : k \notin DOMAIN reacts[i + 1].displacements
        THEN [ok |-> FALSE, data |-> data]
        ELSE LET disp == reacts[i + 1].displacements IN
             [ok |-> TRUE,
              data |-> [data EXCEPT ![other] =
                          [k \in (DOMAIN @) \cup SendKeys(i) |->
                              IF k \in SendKeys(i) THEN disp[k] ELSE @[k]]]]

\* "for i, part in enumerate(self.partitions)": partitions 0 .. i, stopping at the
\* first KeyError or IndexError
RECURSIVE ExchangeUpTo(_, _, _)
ExchangeUpTo(data, reacts, i) ==
    IF i < 0 THEN [ok |-> TRUE, data |-> data]
    ELSE LET before == ExchangeUpTo(data, reacts, i - 1)
         IN  IF before.ok THEN ExchangeOne(before.data, reacts, i) ELSE before

MaxOf(S) == CHOOSE x \in S : \A y \in S : y <= x
MinOf(S) == CHOOSE x \in S : \A y \in S : x <= y

\* self.central_nodes = set(partitions[0].get_overlap_nodes()[2])
central_nodes == SeqToSet(central_overlap(0))
CentralKeys == central_nodes \X Dofs01

\* r['displacements'].get(key, 0.0)
DispGet(r, key) == IF key \in DOMAIN r.displacements THEN r.displacements[key] ELSE 0

\* variant: the smallest estimate is not subtracted
SpreadNoMin(reacts, key) ==
    MaxOf({DispGet(reacts[k], key) : k \in 1 .. Len(reacts)})
\* max(vals) - min(vals) for one central key
Spread(reacts, key) ==
    LET vals == {DispGet(reacts[k], key) : k \in 1 .. Len(reacts)}
    IN  MaxOf(vals) - MinOf(vals)

\* max_diff of one sweep
MaxDiff(reacts) ==
    MaxOf({0} \cup {Spread(reacts, key) : key \in CentralKeys})

\* variant: a spread equal to tol is accepted too
BelowTolOrEqual(d, t) == d <= t
\* "max_diff < self.tol"
BelowTol(d, t) == d < t

\* "for itr in range(self.max_iter)" has another value after it
MoreSweeps(it, m) == it + 1 < m

\* the part of step() after the replies of a sweep are in
SchwarzSweepEnd ==
    LET ex == ExchangeUpTo(interface_data, collected, NumParts - 1)
    IN
    /\ variant = "schwarz"
    /\ pc = "compute"
    /\ reactions' = << collected >>
    /\ interface_data' = ex.data
    /\ IF ~ex.ok
       THEN /\ Raise
            /\ UNCHANGED << itr, idx, round, diffs >>
       ELSE /\ diffs' = Append(diffs, MaxDiff(collected))
            /\ IF SweepFloor(itr) /\ BelowTol(MaxDiff(collected), tol)
               THEN /\ Return([converged |-> TRUE, reactions |-> << collected >>,
                               u |-> << >>])
                    /\ UNCHANGED << itr, idx, round >>
               ELSE IF MoreSweeps(itr, max_iter)
               THEN /\ itr' = itr + 1
                    /\ StartRound
                    /\ UNCHANGED << op, outcome, retval >>
               ELSE /\ Return([converged |-> FALSE, reactions |-> << collected >>,
                               u |-> << >>])
                    /\ UNCHANGED << itr, idx, round >>
    /\ UNCHANGED << takenRound, termSent, variant, partitions, has_node_tags, fixed_nodes, tol, max_iter, interface_order,
                    interface_guess, to_q, from_q, wstate, wmsg, collected, total,
                    sentRound, recvRound, nops >>

(***************************************************************************)
(* Schur coordinator: block-Jacobi step and schur_update.                  *)
(***************************************************************************)
\* variant: a singular system is solved to the zero vector
LinSolveNoCheck(tot) ==
    [ok |-> TRUE, u |-> [k \in 1 .. tot.n |-> IF tot.s = 0 THEN 0 ELSE tot.g \div tot.s]]
\* variant: the system is solved for the load plus a unit load
LinSolveShifted(tot) ==
    IF tot.n > 0 /\ tot.s = 0 THEN [ok |-> FALSE, u |-> << >>]
    ELSE [ok |-> TRUE, u |-> [k \in 1 .. tot.n |-> (tot.g + tot.s) \div tot.s]]
\* np.linalg.solve(S_total, g_total) for S_total = s * I, g_total = g * 1
LinSolve(tot) ==
    IF tot.n > 0 /\ tot.s = 0 THEN [ok |-> FALSE, u |-> << >>]
    ELSE [ok |-> TRUE, u |-> [k \in 1 .. tot.n |-> tot.g \div tot.s]]

\* variant: every key gets the first entry of the vector
unpack_first_entry(order, flat_u) ==
    [ok |-> TRUE, map |-> [key \in {order[k] : k \in 1 .. Len(flat_u)} |-> flat_u[1]]]
\* {self.interface_order[i]: float(flat_u[i]) for i in range(len(flat_u))}
unpack_interface_vector(order, flat_u) ==
    IF Len(flat_u) > Len(order) THEN [ok |-> FALSE, map |-> EmptyMap]
    ELSE [ok |-> TRUE,
          map |-> [key \in {order[k] : k \in 1 .. Len(flat_u)} |->
                     flat_u[CHOOSE k \in 1 .. Len(flat_u) :
                              /\ order[k] = key
                              /\ \A k2 \in (k + 1) .. Len(flat_u) : order[k2] # key]]]

\* the part of step() / schur_update() after the replies are in:
\* step() returns the list; schur_update() solves, unpacks and returns u_gamma
SchurRoundEnd ==
    /\ variant = "schur"
    /\ pc = "compute"
    /\ IF op = "step"
       THEN /\ Return([converged |-> FALSE, reactions |-> << collected >>, u |-> << >>])
            /\ UNCHANGED interface_guess
       ELSE LET sol == LinSolve(total[1])
                unp == unpack_interface_vector(interface_order, sol.u)
            IN  IF sol.ok /\ unp.ok
                THEN /\ interface_guess' = unp.map
                     /\ Return([converged |-> FALSE, reactions |-> << >>, u |-> sol.u])
                ELSE /\ Raise
                     /\ UNCHANGED interface_guess
    /\ UNCHANGED << takenRound, termSent, variant, partitions, has_node_tags, diffs, fixed_nodes, tol, max_iter, interface_data,
                    interface_order, to_q, from_q, wstate, wmsg, idx, itr,
                    collected, reactions, total, round, sentRound, recvRound, nops >>

(***************************************************************************)
(* Domain.shutdown()                                                       *)
(***************************************************************************)
CallShutdown ==
    /\ pc = "idle"
    /\ op' = "shutdown"
    /\ pc' = "term"
    /\ idx' = 0
    /\ outcome' = "none"
    /\ UNCHANGED << takenRound, termSent, variant, partitions, has_node_tags, diffs, fixed_nodes, tol, max_iter, interface_data,
                    interface_order, interface_guess, to_q, from_q, wstate, wmsg,
                    itr, collected, reactions, total, retval, round, sentRound,
                    recvRound, nops >>

\* one q.put('TERMINATE')
PutTerminate(i) ==
    /\ pc = "term"
    /\ idx = i
    /\ to_q' = [to_q EXCEPT ![i] = Append(@, Request(TerminateCmd, 0, EmptyMap))]
    /\ termSent' = [termSent EXCEPT ![i] = TRUE]
    /\ IF TerminateDone(i)
       THEN /\ pc' = "join"
            /\ idx' = 0
       ELSE /\ idx' = i + 1
            /\ UNCHANGED pc
    /\ UNCHANGED << takenRound, variant, partitions, has_node_tags, diffs, fixed_nodes, tol, max_iter, interface_data,
                    interface_order, interface_guess, from_q, wstate, wmsg, op, itr,
                    collected, reactions, total, outcome, retval, round, sentRound,
                    recvRound, nops >>

\* one p.join(); it blocks while the process is alive
Join(i) ==
    /\ pc = "join"
    /\ idx = i
    /\ JoinReturns(i)
    /\ IF JoinDone(i)
       THEN /\ pc' = "done"
            /\ outcome' = "returned"
            /\ UNCHANGED idx
       ELSE /\ idx' = i + 1
            /\ UNCHANGED << pc, outcome >>
    /\ UNCHANGED << takenRound, termSent, variant, partitions, has_node_tags, diffs, fixed_nodes, tol, max_iter, interface_data,
                    interface_order, interface_guess, to_q, from_q, wstate, wmsg,
                    op, itr, collected, reactions, total, retval, round, sentRound,
                    recvRound, nops >>

(***************************************************************************)
(* Worker process: Domain._worker (Schwarz), Domain._subdomain_worker      *)
(* (Schur).                                                                *)
(***************************************************************************)
\* variant: a terminate message is passed over like an unknown one
WorkerBranchKeepsOn(v, cmd) ==
    IF v = "schwarz"
    THEN CASE cmd = "solve" -> "solve"
           [] OTHER         -> "skip"
    ELSE CASE cmd = "schur" -> "schur"
           [] OTHER         -> "skip"
\* the branch of the message loop a command takes
WorkerBranch(v, cmd) ==
    IF v = "schwarz"
    THEN CASE cmd = "solve"     -> "solve"
           [] cmd = "TERMINATE" -> "break"
           [] OTHER             -> "skip"
    ELSE CASE cmd = "schur"                 -> "schur"
           [] cmd \in {"exit", "TERMINATE"} -> "break"
           [] OTHER                         -> "raise"

\* return codes of ops.analyze(1): 0, or a failure
AnalyzeRc == {0, -3}
\* local Schur complements s * I and condensed loads g * 1 a worker may report
SchurS == {0, 1}
SchurG == {0, 2}

\* a displacement map over every free (node, dof) of partition i
Field(i, a, b) == [k \in FreeKeys(i) |-> IF (k[1] + k[2]) % 2 = 0 THEN a ELSE b]

\* the fields a solve may report: all zero, or 1 at the keys with n + dof even
ReplyFields == {<< 0, 0 >>, << 1, 0 >>}

\* Subdomain.solve(...): {'displacements': {...}}
SolveReply(i, id, a, b) == [id |-> id, displacements |-> Field(i, a, b)]
\* Subdomain.get_schur_data(): (S_local, g_local)
SchurReply(i, id, sv, gv) == [id |-> id, n |-> InterfaceSize(i), s |-> sv, g |-> gv]

\* partition = pickle.loads(...); sd = Subdomain(partition): the Schur Subdomain
\* raises AttributeError without node_tags, the Schwarz one only keeps the partition
WorkerStart(i) ==
    /\ wstate[i] = "starting"
    /\ wstate' = [wstate EXCEPT ![i] =
                    IF variant = "schur" /\ ~has_node_tags[i] THEN "crashed"
                                                               ELSE "waiting"]
    /\ UNCHANGED << takenRound, termSent, variant, partitions, has_node_tags, diffs, fixed_nodes, tol, max_iter, interface_data,
                    interface_order, interface_guess, to_q, from_q, wmsg, op, pc, idx,
                    itr, collected, reactions, total, outcome, retval, round,
                    sentRound, recvRound, nops >>

\* msg = to_q.get()
WorkerGet(i) ==
    /\ wstate[i] = "waiting"
    /\ to_q[i] # << >>
    /\ wmsg' = [wmsg EXCEPT ![i] = Head(to_q[i])]
    /\ to_q' = [to_q EXCEPT ![i] = Tail(@)]
    /\ wstate' = [wstate EXCEPT ![i] = "busy"]
    /\ UNCHANGED << takenRound, termSent, variant, partitions, has_node_tags, diffs, fixed_nodes, tol, max_iter, interface_data,
                    interface_order, interface_guess, from_q, op, pc, idx, itr,
                    collected, reactions, total, outcome, retval, round, sentRound,
                    recvRound, nops >>

\* the end of the loop body: the worker is on its way to the next to_q.get()
WorkerLoops(i) ==
    /\ wstate' = [wstate EXCEPT ![i] = "looping"]
    /\ UNCHANGED wmsg

\* "while True:" the worker is in to_q.get() again
WorkerBack(i) ==
    /\ wstate[i] = "looping"
    /\ wstate' = [wstate EXCEPT ![i] = "waiting"]
    /\ wmsg' = [wmsg EXCEPT ![i] = NoMsg]
    /\ UNCHANGED << takenRound, termSent, variant, partitions, has_node_tags, diffs,
                    fixed_nodes, tol, max_iter, interface_data, interface_order,
                    interface_guess, to_q, from_q, op, pc, idx, itr, collected,
                    reactions, total, outcome, retval, round, sentRound, recvRound,
                    nops >>

WorkerEnds(i, how) ==
    /\ wstate' = [wstate EXCEPT ![i] = how]
    /\ UNCHANGED << wmsg, from_q >>

\* the body of the message loop for the message taken
WorkerHandle(i) ==
    /\ wstate[i] = "busy"
    /\ LET br == WorkerBranch(variant, wmsg[i].cmd)
       IN  CASE br = "solve" ->
                  IF ~has_node_tags[i]
                  THEN WorkerEnds(i, "crashed")
                  ELSE \E ab \in ReplyFields :
                          /\ from_q' = [from_q EXCEPT ![i] =
                                          Append(@, SolveReply(i, wmsg[i].id, ab[1], ab[2]))]
                          /\ WorkerLoops(i)
             [] br = "schur" ->
                  \E rc \in AnalyzeRc :
                      IF rc # 0
                      THEN WorkerEnds(i, "crashed")
                      ELSE \E sv \in SchurS, gv \in SchurG :
                              /\ from_q' = [from_q EXCEPT ![i] =
                                              Append(@, SchurReply(i, wmsg[i].id, sv, gv))]
                              /\ WorkerLoops(i)
             [] br = "break" -> WorkerEnds(i, "exited")
             [] br = "raise" -> WorkerEnds(i, "crashed")
             [] OTHER ->
                  /\ WorkerLoops(i)
                  /\ UNCHANGED from_q
    /\ UNCHANGED << takenRound, termSent, variant, partitions, has_node_tags, diffs, fixed_nodes, tol, max_iter, interface_data,
                    interface_order, interface_guess, to_q, op, pc, idx, itr,
                    collected, reactions, total, outcome, retval, round, sentRound,
                    recvRound, nops >>

(***************************************************************************)
(* Specifications.                                                         *)
(***************************************************************************)
CoordinatorNext ==
    \/ CallSchwarzStep
    \/ \E which \in {"step", "schur_update"} : CallSchur(which)
    \/ \E i \in Parts : Put(i)
    \/ \E k \in Parts : Get(k)
    \/ SchwarzSweepEnd
    \/ SchurRoundEnd
    \/ CallShutdown
    \/ \E i \in Parts : PutTerminate(i)
    \/ \E i \in Parts : Join(i)

WorkerNext ==
    \E i \in Parts : WorkerStart(i) \/ WorkerGet(i) \/ WorkerHandle(i) \/ WorkerBack(i)

Next == CoordinatorNext \/ WorkerNext

Spec == Init /\ [][Next]_vars

\* every process is scheduled: a worker that can take or handle a message does,
\* and the coordinator inside shutdown() goes on
Fairness ==
    /\ \A i \in Parts :
          WF_vars(WorkerStart(i) \/ WorkerGet(i) \/ WorkerHandle(i) \/ WorkerBack(i))
    /\ WF_vars(\E i \in Parts : PutTerminate(i))
    /\ WF_vars(\E i \in Parts : Join(i))

\* the drivers' configurations and one that makes an operation raise, per variant
FairInit ==
    /\ Init
    /\ variant = "schwarz" => tol = 1
    /\ fixed_nodes \in {(0 :> {1} @@ 1 :> {6}), (0 :> {1, 3} @@ 1 :> {6}),
                        (0 :> {1} @@ 1 :> {7}), (0 :> {1, 4} @@ 1 :> {7})}

FairSpec == FairInit /\ [][Next]_vars /\ Fairness

\* a client puts a message of its own on a request queue between two operations
RawCmds == {"ping"}
PutRaw(i, cmd) ==
    /\ pc = "idle"
    /\ Len(to_q[i]) = 0
    /\ wstate[i] = "waiting"
    /\ nops < MaxOps
    /\ nops' = nops + 1
    /\ to_q' = [to_q EXCEPT ![i] = Append(@, Request(cmd, 0, EmptyMap))]
    /\ UNCHANGED << takenRound, termSent, variant, partitions, has_node_tags, diffs, fixed_nodes, tol, max_iter,
                    interface_data, interface_order, interface_guess, from_q, wstate,
                    wmsg, op, pc, idx, itr, collected, reactions, total, outcome,
                    retval, round, sentRound, recvRound >>

RawNext == Next \/ \E i \in Parts, cmd \in RawCmds : PutRaw(i, cmd)

RawSpec == Init /\ [][RawNext]_vars

\* the processes have just been spawned, from the drivers' partitions or from
\* descriptors without node_tags
StartInit ==
    /\ Constructed
    /\ DriverConfigured
    /\ has_node_tags \in [Parts -> BOOLEAN]
    /\ wstate = [i \in Parts |-> "starting"]
    /\ variant = "schwarz" => tol = 1
    /\ fixed_nodes \in {(0 :> {1} @@ 1 :> {6}), (0 :> {1} @@ 1 :> {7})}

\* a Schwarz Domain of the driver's partitions, or of partitions with a fixed
\* send-overlap node, with a budget of up to MaxSweeps sweeps
SweepInit ==
    /\ ConstructedWith(MaxSweeps)
    /\ DriverConfigured
    /\ variant = "schwarz"
    /\ tol = 1
    /\ fixed_nodes \in {(0 :> {1} @@ 1 :> {6}), (0 :> {1, 3} @@ 1 :> {6})}
    /\ has_node_tags = [i \in Parts |-> TRUE]
    /\ wstate = [i \in Parts |-> "starting"]

SweepNext ==
    \/ CallSchwarzStep
    \/ \E i \in Parts : Put(i)
    \/ \E k \in Parts : Get(k)
    \/ SchwarzSweepEnd
    \/ CallShutdown
    \/ \E i \in Parts : PutTerminate(i)
    \/ \E i \in Parts : Join(i)
    \/ WorkerNext

SweepSpec == SweepInit /\ [][SweepNext]_vars

\* packing a value map in interface order: [V[key] for key in interface_order]
pack(order, V) == [k \in 1 .. Len(order) |-> V[order[k]]]

\* keys and values of the interface states that are packed and unpacked
PackKeys == {<< 4, 1 >>, << 4, 2 >>, << 11, 1 >>}
PackVals == {0, 1, 2}
PackOrders == UNION {[1 .. n -> PackKeys] : n \in 0 .. MaxPackLen}

\* a Schur Domain with some interface order and a value map keyed by it
PackInit ==
    /\ ConstructedWith(0)
    /\ variant = "schur"
    /\ fixed_nodes = (0 :> {1} @@ 1 :> {7})
    /\ interface_order \in PackOrders
    /\ interface_guess \in [SeqToSet(interface_order) -> PackVals]
    /\ has_node_tags = [i \in Parts |-> TRUE]
    /\ wstate = [i \in Parts |-> "waiting"]

\* the interface state is packed into a flat vector
PackStep ==
    /\ pc = "idle"
    /\ pc' = "packed"
    /\ retval' = [retval EXCEPT !.u = pack(interface_order, interface_guess)]
    /\ UNCHANGED << takenRound, termSent, variant, partitions, has_node_tags, diffs, fixed_nodes, tol, max_iter, interface_data,
                    interface_order, interface_guess, to_q, from_q, wstate, wmsg,
                    op, idx, itr, collected, reactions, total, outcome, round,
                    sentRound, recvRound, nops >>

\* self.interface_guess = self.unpack_interface_vector(u)
UnpackStep ==
    LET unp == unpack_interface_vector(interface_order, retval.u)
    IN
    /\ pc = "packed"
    /\ pc' = "unpacked"
    /\ interface_guess' = (IF unp.ok THEN unp.map ELSE interface_guess)
    /\ outcome' = (IF unp.ok THEN "returned" ELSE "raised")
    /\ UNCHANGED << takenRound, termSent, variant, partitions, has_node_tags, diffs, fixed_nodes, tol, max_iter, interface_data,
                    interface_order, to_q, from_q, wstate, wmsg, op, idx, itr,
                    collected, reactions, total, retval, round, sentRound,
                    recvRound, nops >>

PackNext == PackStep \/ UnpackStep

PackSpec == PackInit /\ [][PackNext]_vars

\* a holder of a request queue puts the terminate word on it between two operations
TermNext == Next \/ \E i \in Parts : PutRaw(i, TerminateCmd)

TermSpec == FairInit /\ [][TermNext]_vars

StartNext == Next

StartSpec == StartInit /\ [][StartNext]_vars

(***************************************************************************)
(* Properties.                                                             *)
(***************************************************************************)
\* requests of worker i that ask for a reply and are not yet collected
Outstanding(i) ==
    Cardinality({k \in 1 .. Len(to_q[i]) : to_q[i][k].cmd \in {"solve", "schur"}})
    + (IF wstate[i] = "busy" /\ wmsg[i].cmd \in {"solve", "schur"} THEN 1 ELSE 0)
    + Len(from_q[i])

\* C1: round barrier.  A request of round N+1 is on no request queue before the
\* round-N reply of every worker has been taken: the id of the last request put to
\* any worker exceeds by at most one the id of the last reply taken from any worker.
C1_RoundBarrier ==
    \A i \in Parts : \A j \in Parts : sentRound[i] <= recvRound[j] + 1

\* a third round has begun (two Schwarz sweeps of a first step(), then a second step())
C1_Witness ==
    /\ variant = "schwarz"
    /\ \E i \in Parts : sentRound[i] = 3

\* C2: within a round the coordinator has put the request of the round to every
\* worker before it takes any reply, and takes the replies in partition-list order:
\* when the reply of worker i to the request of the current round has been taken,
\* every worker has been sent the request of this round and every worker before i
\* has been collected in this round.
C2_BroadcastThenCollectInOrder ==
    \A i \in Parts :
        (round > 0 /\ takenRound[i] = round) =>
            /\ \A j \in Parts : sentRound[j] = round
            /\ \A j \in Parts : j < i => takenRound[j] = round

\* worker 1 has finished first and the coordinator still waits for worker 0
C2_Witness ==
    /\ pc = "recv"
    /\ idx = 0
    /\ from_q[0] = << >>
    /\ wstate[0] = "busy"
    /\ from_q[1] # << >>

\* C3: every worker has at most one solve/schur request outstanding, and the reply
\* taken from a worker answers the request most recently sent to it.
C3_OneOutstandingAndFresh ==
    \A i \in Parts :
        /\ Outstanding(i) <= 1
        /\ recvRound[i] = takenRound[i]
        /\ \A k \in 1 .. Len(from_q[i]) : from_q[i][k].id = sentRound[i]

\* the reply to a second request has been taken while the next round is under way
C3_Witness ==
    /\ recvRound[0] = 2
    /\ sentRound[1] = 3
    /\ Outstanding(1) = 1

\* C4: clean shutdown.  Once shutdown() has returned no worker is alive and every
\* queue is empty.
C4_CleanShutdown ==
    pc = "done" =>
        \A i \in Parts :
            /\ wstate[i] \notin {"waiting", "busy"}
            /\ to_q[i] = << >>
            /\ from_q[i] = << >>

\* shutdown() has returned after two operations that returned or raised
C4_Witness ==
    /\ pc = "done"
    /\ nops = 2
    /\ round >= 2

\* C5: shutdown() has put its terminate message on the request queue of every
\* worker before it waits on any process.
C5_TerminateAllBeforeJoin ==
    pc = "join" => \A i \in Parts : termSent[i]

\* the coordinator waits on worker 0 while worker 1 has not yet taken its message
C5_Witness ==
    /\ pc = "join"
    /\ idx = 0
    /\ wstate[1] = "waiting"
    /\ Len(to_q[1]) = 1

\* C6: shutdown liveness.  Under fair scheduling of the processes a shutdown()
\* that was called returns.
C6_ShutdownReturns == (op = "shutdown") ~> (pc = "done")

\* shutdown() returned after every worker took its message and left its loop
C6_Witness ==
    /\ op = "shutdown"
    /\ pc = "done"
    /\ \A i \in Parts : wstate[i] = "exited" /\ termSent[i]

\* a reply that reports an error to the coordinator
IsErrorReply(r) == "error" \in DOMAIN r
IsKnownCmd(cmd) == cmd \in {"solve", "schur", "TERMINATE", "exit"}

\* C7: a protocol violation is reported and is not fatal.  A worker that has
\* handled a message of an unknown command has put an error reply on its reply
\* queue and is back in its loop.
C7_UnknownCommandReported ==
    [][\A i \in Parts :
          (wstate[i] = "busy" /\ ~IsKnownCmd(wmsg[i].cmd) /\ wstate'[i] # "busy") =>
              /\ wstate'[i] \in {"looping", "waiting"}
              /\ Len(from_q'[i]) = Len(from_q[i]) + 1
              /\ IsErrorReply(from_q'[i][Len(from_q'[i])])]_vars

\* C8: worker lifetime.  A worker that has left its message loop left it on a
\* terminate message.
C8_OnlyTerminateEnds ==
    \A i \in Parts :
        wstate[i] \in {"exited", "crashed"} =>
            /\ wstate[i] = "exited"
            /\ wmsg[i].cmd \in {"TERMINATE", "exit"}

\* C9: block-Jacobi exchange.  While step() of the Schur coordinator is in progress
\* every solve request carries the current interface guess, every worker has been
\* sent one once the broadcast is over, and step() goes on until it returns (the
\* system is not stuck inside it).
C9_BlockJacobiStepReturns ==
    (variant = "schur" /\ op = "step") =>
        /\ \A i \in Parts : \A k \in 1 .. Len(to_q[i]) :
               to_q[i][k].cmd = "solve" /\ to_q[i][k].data = interface_guess
        /\ pc \in {"recv", "compute"} => \A i \in Parts : sentRound[i] = round
        /\ ENABLED Next

\* C10: two-sweep floor.  A Schwarz step() run with max_iter = 1 that returned,
\* returned converged = False.
C10_TwoSweepFloor ==
    (variant = "schwarz" /\ max_iter = 1 /\ pc = "idle" /\ outcome = "returned") =>
        ~retval.converged

\* a one-sweep step() returned although its only sweep had a spread below tol,
\* on a second call, which started from receive buffers that were no longer zero
C10_Witness ==
    /\ variant = "schwarz"
    /\ max_iter = 1
    /\ pc = "idle"
    /\ outcome = "returned"
    /\ nops = 2
    /\ retval.reactions # << >>
    /\ MaxDiff(retval.reactions[1]) < tol
    /\ \E k \in DOMAIN interface_data[0] : interface_data[0][k] # 0

(***************************************************************************)
(* Schwarz termination.                                                    *)
(***************************************************************************)
\* the sweeps (counted from 1) of the current step(), from the second on, whose
\* central-node spread was strictly below tol
HitSweeps == {k \in 2 .. Len(diffs) : diffs[k] < tol}
\* a Schwarz step() call has ended and the caller has the control again
StepReturned == variant = "schwarz" /\ nops > 0 /\ pc = "idle" /\ outcome = "returned"
StepEnded ==
    variant = "schwarz" /\ nops > 0 /\ pc = "idle" /\ outcome \in {"returned", "raised"}
\* worker i is alive and has no message in hand: it is starting, in to_q.get(),
\* or on its way back to it
AliveAndIdle(i) == wstate[i] \in {"starting", "waiting", "looping"}
\* no request is queued or being worked on and every reply has been taken
NothingInFlight ==
    \A i \in Parts :
        /\ to_q[i] = << >>
        /\ from_q[i] = << >>
        /\ AliveAndIdle(i)
        /\ sentRound[i] = recvRound[i]

\* C11: a Schwarz step() returns converged = True exactly when some sweep k >= 2
\* had a spread strictly below tol, and it stops at the first such sweep: while the
\* step is in progress no such sweep has been measured, and when it has returned
\* True the only such sweep is the last one, its replies are the reactions
\* returned, and no request was sent after it.
C11_ConvergedAtFirstHit ==
    /\ (variant = "schwarz" /\ op = "step") => HitSweeps = {}
    /\ StepReturned =>
          /\ retval.converged <=> HitSweeps # {}
          /\ retval.converged =>
                /\ HitSweeps = {Len(diffs)}
                /\ Len(diffs) = itr + 1
                /\ retval.reactions = << collected >>
                /\ MaxDiff(collected) = diffs[Len(diffs)]
                /\ NothingInFlight

\* the second sweep was measured at tol and the step went on to a third
C11_Witness ==
    /\ StepReturned
    /\ retval.converged
    /\ diffs = << 0, 1, 0 >>

\* what C12 promises of a step() that has ended without a sweep below tol
RanToBudget ==
    /\ outcome = "returned"
    /\ ~retval.converged
    /\ Len(diffs) = max_iter
    /\ max_iter > 0 => itr + 1 = max_iter
    /\ retval.reactions = (IF max_iter > 0 THEN << collected >> ELSE << >>)
    /\ NothingInFlight

\* C12: non-convergence is not fatal.  A step() that has ended and saw no sweep
\* from the second onward with a spread below tol ran exactly max_iter sweeps and
\* returned (False, reactions of the last sweep) without raising, all workers
\* alive and idle.
C12_NonConvergenceNotFatal ==
    (StepEnded /\ HitSweeps = {}) => RanToBudget

(***************************************************************************)
(* Failures of a worker.                                                   *)
(***************************************************************************)
\* get_schur_data of worker i got a nonzero status from ops.analyze(1)
AssemblyFailed(i) ==
    variant = "schur" /\ wstate[i] = "crashed" /\ wmsg[i].cmd = "schur"

\* C13: assembly failure aborts the run.  Once the local solve of a worker has
\* returned a nonzero status in a round, the round operation of the coordinator
\* ends by an error: it has raised, or it is still on its way there (the system
\* is not stuck with the coordinator waiting).
C13_AssemblyFailureAborts ==
    (\E i \in Parts : AssemblyFailed(i)) =>
        \/ pc = "idle" /\ outcome = "raised"
        \/ ENABLED Next

\* worker i has taken a message from its request queue at some time
TookMessage(i) == wstate[i] = "busy" \/ wmsg[i] # NoMsg

\* C14: contract violation fails fast.  A worker whose partition descriptor has no
\* node_tags fails at startup: it never takes a message from its request queue
\* and never puts a result on its reply queue.
C14_MissingNodeTagsFailsAtStartup ==
    \A i \in Parts :
        ~has_node_tags[i] =>
            /\ wstate[i] \in {"starting", "crashed"}
            /\ ~TookMessage(i)
            /\ from_q[i] = << >>

\* worker i has died and the reply to the request of the current round that was
\* sent to it has not been put and will not be
NeverReplies(i) ==
    /\ round > 0
    /\ sentRound[i] = round
    /\ takenRound[i] # round
    /\ wstate[i] = "crashed"
    /\ from_q[i] = << >>

\* C15: no timeout.  While some worker will never put its reply of the current
\* round, the round operation of the coordinator has not returned and no other
\* operation, shutdown() included, has been started.
C15_NoTimeout ==
    (\E i \in Parts : NeverReplies(i)) =>
        /\ op \in {"step", "schur_update"}
        /\ pc \in {"send", "recv"}
        /\ outcome = "none"
        /\ \A j \in Parts : ~termSent[j]

\* the coordinator took the reply of worker 0 and waits for worker 1, whose
\* assembly failed
C15_Witness ==
    /\ NeverReplies(1)
    /\ op = "schur_update"
    /\ pc = "recv"
    /\ idx = 1
    /\ takenRound[0] = round
    /\ ~ENABLED Next

(***************************************************************************)
(* Interface ordering and DOF partition.                                   *)
(***************************************************************************)
\* C16: Schur summation is order-consistent.  Every (S_i, g_i) a worker has put in
\* a schur round has the size of interface_order, and its position j belongs to
\* the key interface_order[j].
C16_SchurOrderConsistent ==
    variant = "schur" =>
        \A i \in Parts : \A k \in 1 .. Len(from_q[i]) :
            /\ from_q[i][k].n = Len(interface_order)
            /\ LocalInterfaceKeys(i) = interface_order

\* C17: interface round-trip.  For a value map V keyed by the interface order,
\* unpacking the vector obtained by packing V in interface order gives V back:
\* the unpacking step leaves the interface state it was packed from unchanged.
C17_InterfaceRoundTrip ==
    [][(pc = "packed" /\ pc' = "unpacked") =>
          /\ outcome' = "returned"
          /\ interface_guess' = interface_guess]_vars

\* a map with two different values was packed along an order that names one of
\* its keys twice, and unpacked
C17_Witness ==
    /\ pc = "unpacked"
    /\ Len(interface_order) = 3
    /\ interface_order[1] = interface_order[3]
    /\ interface_order[1] # interface_order[2]
    /\ interface_guess[interface_order[1]] # interface_guess[interface_order[2]]
    /\ retval.u = pack(interface_order, interface_guess)

\* C18: DOF partition invariant.  For every partition descriptor of the Domain,
\* get_dof_partition() returns interior and interface index lists without
\* repetition that are disjoint and whose union is {0 .. 2 * (free nodes) - 1}.
C18_DofPartitionCovers ==
    \A i \in Parts :
        LET p == get_dof_partition(i)
        IN  /\ p.ok
            /\ SeqToSet(p.interior) \cap SeqToSet(p.interface) = {}
            /\ SeqToSet(p.interior) \cup SeqToSet(p.interface)
                  = 0 .. (2 * Len(FreeNodes(i)) - 1)
            /\ Len(p.interior) + Len(p.interface) = 2 * Len(FreeNodes(i))

(***************************************************************************)
(* Overlap sets and reply schema of the Schwarz partitions.                *)
(***************************************************************************)
\* recv of each partition is send of the other, and send and recv are disjoint
Corresponds(ov) ==
    \A i \in Parts :
        /\ SeqToSet(ov[i].recv) = SeqToSet(ov[1 - i].send)
        /\ SeqToSet(ov[i].send) \cap SeqToSet(ov[i].recv) = {}
\* the same for the left and right partition of every mesh up to MaxMeshN
MeshFamilyCorresponds ==
    \A nx \in 1 .. MaxMeshN : \A ny \in 1 .. MaxMeshN :
        Corresponds([i \in Parts |-> PartitionOverlap(nx, ny, i)])

\* C19: overlap correspondence.  For the left and right overlapping partitions
\* built from the same mesh (the driver's, and every mesh up to MaxMeshN), the
\* recv-overlap node set of each partition equals the send-overlap node set of
\* the other, and the send-overlap and recv-overlap sets of a partition are
\* disjoint.
C19_OverlapCorrespondence ==
    variant = "schwarz" =>
        /\ Corresponds(get_overlap_nodes_of)
        /\ MeshFamilyCorresponds

\* a sweep has been exchanged: the receive buffer of the left partition holds,
\* on the keys of the right partition's send overlap, a value the right worker sent
C19_Witness ==
    /\ variant = "schwarz"
    /\ round >= 2
    /\ DOMAIN interface_data[0] = SeqToSet(send_overlap(1)) \X Dofs01
    /\ \E k \in DOMAIN interface_data[0] : interface_data[0][k] # 0

\* the solve replies of worker i that are queued or were collected in this sweep
SolveReplies(i) ==
    {from_q[i][k] : k \in 1 .. Len(from_q[i])}
        \cup (IF Len(collected) > i THEN {collected[i + 1]} ELSE {})

\* C20: solve reply schema.  The reply of a Schwarz worker to a solve request has a
\* displacement for the keys (n, 0) and (n, 1) of every node n of its partition
\* that is not fixed, and for no other key.
C20_SolveReplySchema ==
    variant = "schwarz" =>
        \A i \in Parts : \A r \in SolveReplies(i) :
            DOMAIN r.displacements =
                {k \in SeqToSet(node_tags(i)) \X {0, 1} : k[1] \notin fixed_nodes[i]}

\* the left partition fixes nodes 1 and 3; its worker's reply is queued and has
\* node 2 and not node 3
C20_Witness ==
    /\ variant = "schwarz"
    /\ fixed_nodes[0] = {1, 3}
    /\ from_q[0] # << >>
    /\ << 2, 0 >> \in DOMAIN from_q[0][1].displacements
    /\ << 3, 1 >> \notin DOMAIN from_q[0][1].displacements

(***************************************************************************)
(* The dense interface solve of schur_update().                            *)
(***************************************************************************)
\* schur_update() has taken every reply and is at np.linalg.solve
AtSolve == variant = "schur" /\ op = "schur_update" /\ pc = "compute"
\* the summed Schur matrix is not invertible
SingularTotal == total # << >> /\ total[1].n > 0 /\ total[1].s = 0

\* C21: a singular interface system is fatal at the dense solve.  While the
\* replies are collected a singular running sum raises nothing; with the reply of
\* every worker taken and the summed matrix not invertible, the solve step ends
\* schur_update() by an exception and interface_guess stays as it was.
C21_SingularFailsAtSolve ==
    [][/\ (AtSolve /\ SingularTotal) =>
             /\ \A i \in Parts : takenRound[i] = round
             /\ Len(collected) = NumParts
             /\ pc' # pc => (outcome' = "raised" /\ interface_guess' = interface_guess)
       /\ (op = "schur_update" /\ pc = "recv" /\ SingularTotal /\ outcome' = "raised") =>
             \E i \in Parts : from_q[i] # << >> /\ Head(from_q[i]).n # total[1].n]_vars

\* schur_update() raised at the solve: both replies were taken, of the size of the
\* interface order, and their matrices sum to a singular one
C21_Witness ==
    /\ variant = "schur"
    /\ pc = "idle"
    /\ outcome = "raised"
    /\ Len(collected) = NumParts
    /\ SingularTotal
    /\ total[1].n = Len(interface_order)
    /\ \A i \in Parts : from_q[i] = << >> /\ wstate[i] = "waiting"

\* schur_update() has returned to the caller
SchurUpdateReturned ==
    /\ variant = "schur"
    /\ pc = "idle"
    /\ outcome = "returned"
    /\ total # << >>
    /\ Len(collected) = NumParts

\* C22: zero-load triviality.  When schur_update() has returned and every worker
\* had reported a zero condensed load g_i (the summed matrix was invertible, or it
\* would not have returned), the vector returned is all zero and every entry of
\* interface_guess is zero.
C22_ZeroLoadTriviality ==
    (SchurUpdateReturned /\ \A k \in 1 .. Len(collected) : collected[k].g = 0) =>
        /\ Len(retval.u) = total[1].n
        /\ \A k \in 1 .. Len(retval.u) : retval.u[k] = 0
        /\ \A key \in DOMAIN interface_guess : interface_guess[key] = 0

\* a second schur_update() returned: every worker had reported a zero load and the
\* summed matrix was invertible
C22_Witness ==
    /\ SchurUpdateReturned
    /\ nops = 2
    /\ round = 2
    /\ \A k \in 1 .. Len(collected) : collected[k].g = 0
    /\ total[1].s > 0
    /\ Len(retval.u) = Len(interface_order)
    /\ DOMAIN interface_guess = SeqToSet(interface_order)

(***************************************************************************)
(* The exchange and the convergence measure of a Schwarz sweep.            *)
(***************************************************************************)
\* the step from the collected replies of a sweep to the next sweep or to the
\* return of step(), with the exchange done
SweepExchanged ==
    /\ variant = "schwarz"
    /\ pc = "compute"
    /\ pc' # "compute"
    /\ outcome' # "raised"

\* C25: the Schwarz exchange is a swap, not a merge.  After the exchange of a sweep
\* with two partitions, for each partition i the receive buffer of the other
\* partition holds at every key (n, dof) with n in i's send overlap the
\* displacement worker i reported in this sweep, and every other entry of that
\* buffer is as it was.
C25_ExchangeIsSwap ==
    [][SweepExchanged =>
          \A i \in Parts :
              LET o == 1 - i
              IN  /\ DOMAIN interface_data'[o] = DOMAIN interface_data[o] \cup SendKeys(i)
                  /\ \A k \in SendKeys(i) :
                         interface_data'[o][k] = collected[i + 1].displacements[k]
                  /\ \A k \in DOMAIN interface_data[o] \ SendKeys(i) :
                         interface_data'[o][k] = interface_data[o][k]]_vars

\* the second sweep of a step() has been exchanged: each buffer holds what the
\* other worker reported, and the left buffer holds two different values
C25_Witness ==
    /\ variant = "schwarz"
    /\ Len(diffs) = 2
    /\ Len(collected) = NumParts
    /\ pc \in {"send", "idle"}
    /\ \A i \in Parts : \A k \in SendKeys(i) :
           interface_data[1 - i][k] = collected[i + 1].displacements[k]
    /\ \E k1 \in DOMAIN interface_data[0] : \E k2 \in DOMAIN interface_data[0] :
           interface_data[0][k1] # interface_data[0][k2]

(***************************************************************************)
(* Worker lifetime after a terminate message.                              *)
(***************************************************************************)
\* q is p with messages appended at its end
IsPrefix(p, q) == Len(p) <= Len(q) /\ SubSeq(q, 1, Len(p)) = p

\* C26: terminate handling.  A worker that has taken a terminate message leaves
\* its loop without putting a reply; from then on it takes no message from its
\* request queue and puts no reply, so a request queued behind the terminate
\* message is never answered.
C26_TerminateHandling ==
    [][\A i \in Parts :
          /\ (wstate[i] = "busy" /\ wmsg[i].cmd = "TERMINATE" /\ wstate'[i] # "busy") =>
                 /\ wstate'[i] = "exited"
                 /\ from_q'[i] = from_q[i]
                 /\ to_q'[i] = to_q[i]
          /\ wstate[i] = "exited" =>
                 /\ wstate'[i] = "exited"
                 /\ IsPrefix(to_q[i], to_q'[i])
                 /\ Len(from_q'[i]) <= Len(from_q[i])]_vars

\* worker 0 left its loop on a terminate message with the request of a round
\* queued behind it; the coordinator waits for the reply
C26_Witness ==
    /\ wstate[0] = "exited"
    /\ to_q[0] # << >>
    /\ to_q[0][1].cmd \in {"solve", "schur"}
    /\ from_q[0] = << >>
    /\ pc = "recv"
    /\ idx = 0

\* the displacements the workers reported for a key in the collected replies
Reported(key) == {collected[k].displacements[key] : k \in 1 .. Len(collected)}

\* C27 as stated.  In a sweep every worker has reported a displacement
\* for every central node and both DOFs 0 and 1, and the value compared with tol
\* is the maximum over these keys of the largest minus the smallest displacement
\* reported for the key.
C27_ConvergenceMeasure ==
    [][(variant = "schwarz" /\ pc = "compute" /\ Len(diffs') = Len(diffs) + 1) =>
          /\ \A k \in 1 .. Len(collected) : \A key \in central_nodes \X {0, 1} :
                 key \in DOMAIN collected[k].displacements
          /\ diffs'[Len(diffs')] =
                 MaxOf({MaxOf(Reported(key)) - MinOf(Reported(key)) :
                           key \in central_nodes \X {0, 1}})]_vars

\* the estimates of the workers for a key: the displacement reported, or 0.0 for
\* a worker whose reply has no entry for the key
Estimates(key) ==
    {IF key \in DOMAIN collected[k].displacements
        THEN collected[k].displacements[key] ELSE 0 : k \in 1 .. Len(collected)}

\* C27, amended: the value compared with tol in a sweep is the maximum, over every
\* central node and both DOFs 0 and 1, of the largest minus the smallest estimate
\* for the key, where a worker contributes the displacement it reported and 0.0
\* when it reported none, which happens only for a central node fixed in its
\* partition.
C27_ConvergenceMeasureWithDefault ==
    [][(variant = "schwarz" /\ pc = "compute" /\ Len(diffs') = Len(diffs) + 1) =>
          /\ \A k \in 1 .. Len(collected) : \A key \in central_nodes \X {0, 1} :
                 key \notin DOMAIN collected[k].displacements =>
                     key[1] \in fixed_nodes[k - 1]
          /\ diffs'[Len(diffs')] =
                 MaxOf({MaxOf(Estimates(key)) - MinOf(Estimates(key)) :
                           key \in central_nodes \X {0, 1}})]_vars

\* a sweep was measured at 1: the left partition fixes central node 4 and reported
\* nothing for it, the right worker reported 1
C27_Witness ==
    /\ variant = "schwarz"
    /\ fixed_nodes[0] = {1, 4}
    /\ pc \in {"send", "idle"}
    /\ Len(collected) = NumParts
    /\ << 4, 0 >> \notin DOMAIN collected[1].displacements
    /\ collected[2].displacements[<< 4, 0 >>] = 1
    /\ diffs # << >>
    /\ diffs[Len(diffs)] = 1

(***************************************************************************)
(* Unpacking of the interface solution.                                    *)
(***************************************************************************)
\* C28: Schur unpacking.  When schur_update() has returned the vector u,
\* interface_guess has exactly the keys of interface_order and
\* interface_guess[interface_order[i]] = u[i] for every i; and interface_order is
\* the order the Domain was constructed with, whatever operation ran.
C28_SchurUnpacking ==
    /\ variant = "schur" => interface_order = DriverInterfaceOrder
    /\ SchurUpdateReturned =>
          /\ DOMAIN interface_guess = SeqToSet(interface_order)
          /\ Len(retval.u) = Len(interface_order)
          /\ \A i \in 1 .. Len(interface_order) :
                 interface_guess[interface_order[i]] = retval.u[i]

(***************************************************************************)
(* The central nodes among the overlap nodes.                              *)
(***************************************************************************)
\* the central nodes are in neither exchange set of partition i
CentralApart(ov) ==
    \A i \in Parts :
        /\ SeqToSet(ov[i].central) \cap SeqToSet(ov[i].send) = {}
        /\ SeqToSet(ov[i].central) \cap SeqToSet(ov[i].recv) = {}

\* the same for the left and right partition of every mesh up to MaxMeshN
MeshFamilyCentralApart ==
    \A nx \in 1 .. MaxMeshN : \A ny \in 1 .. MaxMeshN :
        CentralApart([i \in Parts |-> PartitionOverlap(nx, ny, i)])

\* C29: central nodes are a pure probe set.  For the overlapping partitions built from a mesh (the driver's,
\* and every mesh up to MaxMeshN), the central node set is disjoint from the
\* send-overlap and from the recv-overlap set of each partition, so no value at a
\* central node is exchanged or prescribed.
C29_CentralPureProbe ==
    variant = "schwarz" =>
        /\ CentralApart(get_overlap_nodes_of)
        /\ MeshFamilyCentralApart

(***************************************************************************)
(* The state between two operations of the coordinator.                    *)
(***************************************************************************)
\* the constructor, or the last step() or schur_update() called, has returned
\* without raising and no further operation has been called
ReturnedNormally ==
    /\ pc = "idle"
    /\ nops = 0 \/ outcome = "returned"

\* C30 as stated.  Whenever the constructor, step() or schur_update() has
\* returned normally, every request queue and every reply queue is empty and
\* every worker is alive and blocked in the get of its request queue.
C30_QuiescentBetweenOperations ==
    ReturnedNormally =>
        \A i \in Parts :
            /\ to_q[i] = << >>
            /\ from_q[i] = << >>
            /\ wstate[i] = "waiting"

\* C30, amended: whenever the constructor, step() or schur_update() has returned
\* normally, every request queue and every reply queue is empty, every request
\* sent has been answered and its reply taken, and every worker is alive with no
\* request left to handle: it is blocked in the get of its request queue, or
\* has not reached it yet, being still in its start-up or between the put of
\* its last reply and the next get.
C30_QuiescentOrOnTheWay ==
    ReturnedNormally =>
        \A i \in Parts :
            /\ to_q[i] = << >>
            /\ from_q[i] = << >>
            /\ wstate[i] \in {"starting", "waiting", "looping"}
            /\ wstate[i] = "starting" => nops = 0 \/ round = 0
            /\ sentRound[i] = round
            /\ recvRound[i] = round
            /\ takenRound[i] = round

\* a second operation has returned normally, both replies of its last round
\* taken, while worker 1 has put its reply and is not yet back in its get
C30_Witness ==
    /\ ReturnedNormally
    /\ nops = 2
    /\ round >= 2
    /\ Len(collected) = NumParts
    /\ wstate[0] = "waiting"
    /\ wstate[1] = "looping"

(***************************************************************************)
(* The receive buffers of the Schwarz coordinator.                         *)
(***************************************************************************)
\* C31: receive-buffer shape.  At every state of the two-partition Schwarz
\* coordinator the key set of the receive buffer of partition i is exactly
\* {(n, dof) : n in the recv overlap of i, dof in {0, 1}}; all values are 0 before
\* the first operation; and no step taken while no operation is running, the
\* call of the next step() included, changes a buffer.
C31_ReceiveBufferShape ==
    /\ [](variant = "schwarz" =>
            /\ \A i \in Parts :
                   DOMAIN interface_data[i] =
                       {<< n, dof >> : n \in SeqToSet(recv_overlap(i)), dof \in {0, 1}}
            /\ nops = 0 =>
                   \A i \in Parts : \A k \in DOMAIN interface_data[i] :
                       interface_data[i][k] = 0)
    /\ [][(variant = "schwarz" /\ pc = "idle") =>
             interface_data' = interface_data]_vars

\* a second step() has been called and its first request is about to be sent
\* with a buffer that holds a value exchanged in the first step()
C31_Witness ==
    /\ variant = "schwarz"
    /\ nops = 2
    /\ op = "step"
    /\ pc = "send"
    /\ itr = 0
    /\ idx = 0
    /\ \E i \in Parts : \E k \in DOMAIN interface_data[i] : interface_data[i][k] # 0

(***************************************************************************)
(* The keys the exchange of a sweep reads.                                 *)
(***************************************************************************)
\* C32: exchange keys are always available.  Whatever nodes the partitions fix,
\* every key (n, dof) with n in the send overlap of partition i is in the solve
\* reply of worker i, and the part of step() that runs after the replies of a
\* sweep have been collected does not raise.
C32_ExchangeKeysAvailable ==
    /\ [](variant = "schwarz" =>
            \A i \in Parts : \A r \in SolveReplies(i) :
                \A n \in SeqToSet(send_overlap(i)) : \A dof \in {0, 1} :
                    << n, dof >> \in DOMAIN r.displacements)
    /\ [][(variant = "schwarz" /\ pc = "compute") => outcome' # "raised"]_vars

(***************************************************************************)
(* The exchange of a sweep for a list of N partitions: Domain.__init__ and *)
(* the loop "for i, part in enumerate(self.partitions)" of step(), applied  *)
(* to the replies of one sweep.                                            *)
(***************************************************************************)
\* the index Python reads for list[j] in a list of n items; -1 for IndexError
ListIndex(j, n) ==
    IF 0 <= j /\ j < n THEN j
    ELSE IF 0 - n <= j /\ j < 0 THEN j + n
    ELSE 0 - 1

\* the driver's fixed nodes of a partition of class c
DriverFixed(c) == IF c = 0 THEN {1} ELSE {6}

\* the displacement map Subdomain.solve returns for a partition of class c
DisplacementsOf(c, fixed, a, b) ==
    [k \in {n \in SeqToSet(SchwarzNodeTags(c)) : n \notin fixed} \X Dofs01 |->
        IF (k[1] + k[2]) % 2 = 0 THEN a ELSE b]

\* the lists of 2 .. MaxParts partitions, each a left or a right partition
PartitionLists ==
    UNION {[0 .. (n - 1) -> {0, 1}] : n \in 2 .. MaxParts}

\* a Schwarz Domain constructed over a list of partitions, with the replies of
\* one sweep collected
ManyInit ==
    /\ variant = "schwarz"
    /\ partitions \in PartitionLists
    /\ has_node_tags = [i \in DOMAIN partitions |-> TRUE]
    /\ diffs = << >>
    /\ fixed_nodes = [i \in DOMAIN partitions |-> DriverFixed(partitions[i])]
    /\ tol = 1
    /\ max_iter = 1
    /\ interface_data =
          [i \in DOMAIN partitions |->
              [k \in SeqToSet(get_overlap_nodes_of[partitions[i]].recv) \X Dofs01 |-> 0]]
    /\ interface_order = << >>
    /\ interface_guess = EmptyMap
    /\ to_q = [i \in DOMAIN partitions |-> << >>]
    /\ from_q = [i \in DOMAIN partitions |-> << >>]
    /\ wstate = [i \in DOMAIN partitions |-> "waiting"]
    /\ wmsg = [i \in DOMAIN partitions |-> NoMsg]
    /\ op = "step"
    /\ pc = "compute"
    /\ idx = 0
    /\ itr = 0
    /\ \E av \in [DOMAIN partitions -> Vals] :
          collected = [k \in 1 .. Cardinality(DOMAIN partitions) |->
                          [id |-> 1,
                           displacements |->
                               DisplacementsOf(partitions[k - 1], fixed_nodes[k - 1],
                                               av[k - 1], 1 - av[k - 1])]]
    /\ reactions = << >>
    /\ total = << >>
    /\ outcome = "none"
    /\ retval = [converged |-> FALSE, reactions |-> << >>, u |-> << >>]
    /\ round = 1
    /\ sentRound = [i \in DOMAIN partitions |-> 1]
    /\ recvRound = [i \in DOMAIN partitions |-> 1]
    /\ takenRound = [i \in DOMAIN partitions |-> 1]
    /\ termSent = [i \in DOMAIN partitions |-> FALSE]
    /\ nops = 1

\* one pass of the exchange loop, for partition idx:
\*   send_nodes = part.get_overlap_nodes()[0]; other = 1 - i
\*   self.interface_data[other].update({(n, dof): reactions[i]['displacements'][(n, dof)] ...})
ManyExchange ==
    LET n     == Cardinality(DOMAIN partitions)
        keys  == SeqToSet(get_overlap_nodes_of[partitions[idx]].send) \X Dofs01
        disp  == collected[idx + 1].displacements
        other == ListIndex(1 - idx, n)
    IN
    /\ variant = "schwarz"
    /\ pc = "compute"
    /\ idx < n
    /\ IF other < 0 \/ \E k \in keys : k \notin DOMAIN disp
       THEN /\ Raise
            /\ UNCHANGED << interface_data, idx >>
       ELSE /\ interface_data' =
                 [interface_data EXCEPT ![other] =
                     [k \in (DOMAIN @) \cup keys |-> IF k \in keys THEN disp[k] ELSE @[k]]]
            /\ idx' = idx + 1
            /\ pc' = (IF idx + 1 = n THEN "exchanged" ELSE "compute")
            /\ UNCHANGED << op, outcome, retval >>
    /\ UNCHANGED << takenRound, termSent, variant, partitions, has_node_tags, diffs,
                    fixed_nodes, tol, max_iter, interface_order, interface_guess,
                    to_q, from_q, wstate, wmsg, itr, collected, reactions, total,
                    round, sentRound, recvRound, nops >>

ManyNext == ManyExchange

ManySpec == ManyInit /\ [][ManyNext]_vars

\* C33: exchange target for N partitions.  For a list of N >= 2 partitions, the
\* pass of the exchange for partition i puts the values worker i reported at the
\* keys of i's send overlap into the receive buffer of a partition of the list
\* other than i, and leaves every other buffer, the one of i included, as it was.
C33_ExchangeTargetIsOther ==
    [][(variant = "schwarz" /\ pc = "compute" /\ idx \in DOMAIN partitions
           /\ idx' = idx + 1) =>
          \E o \in DOMAIN partitions \ {idx} :
              /\ \A n \in SeqToSet(get_overlap_nodes_of[partitions[idx]].send) :
                     \A dof \in {0, 1} :
                         /\ << n, dof >> \in DOMAIN interface_data'[o]
                         /\ interface_data'[o][<< n, dof >>] =
                                collected[idx + 1].displacements[<< n, dof >>]
              /\ \A j \in DOMAIN partitions \ {o} :
                     interface_data'[j] = interface_data[j]]_vars

====
